---------------------------- MODULE Spec2Model ----------------------------
(***************************************************************************)
(* A model of pyglbuffers.py: the format-string parser                     *)
(* BufferFormat.from_string (with its lru_cache), the packers              *)
(* BufferFormat.pack / pack_single, and the Buffer wrapper's bind / init / *)
(* reserve / __setitem__ over a small OpenGL binding state.                *)
(*                                                                         *)
(* Python strings are sequences of one-character strings.  Python values   *)
(* handed to the packers are records [k, n, items] (k = "num", "str" or    *)
(* "seq").  An exception that leaves a call is the "status" of its result. *)
(***************************************************************************)
EXTENDS Integers, Sequences, FiniteSets, TLC

VARIABLES
    cache,      \* lru_cache of from_string: <<[key, val]>>, least recent first
    input,      \* argument of the last from_string call
    result,     \* what the last from_string call returned or raised
    prevInput,  \* argument of the first of two from_string calls compared
    prevResult, \* its outcome
    calls,      \* number of from_string calls made
    hits,       \* cache_info().hits of from_string
    repeats,    \* number of from_string calls that repeated an earlier argument
    fmt,        \* the BufferFormat the packers are called on
    pdata,      \* argument of the last pack / pack_single call
    pres,       \* what the last pack / pack_single call returned or raised
    bufs,       \* Buffer objects: bid -> [made, target]
    glBound,    \* OpenGL: target -> bid bound to it (0: none)
    glStore,    \* OpenGL: bid -> bytes of storage allocated (-1: none)
    lastOp      \* the last Buffer operation: [op, buf, exc, gl (the GL calls made)]

vars == <<cache, input, result, prevInput, prevResult, calls, hits, repeats,
          fmt, pdata, pres, bufs, glBound, glStore, lastOp>>

parserVars == <<cache, input, result, prevInput, prevResult, calls, hits, repeats>>
packVars == <<fmt, pdata, pres>>
bufferVars == <<bufs, glBound, glStore, lastOp>>

-----------------------------------------------------------------------------
(* Characters *)

Digits == {"0", "1", "2", "3", "4", "5", "6", "7", "8", "9"}

Letters ==
    {"a", "b", "c", "d", "e", "f", "g", "h", "i", "j", "k", "l", "m",
     "n", "o", "p", "q", "r", "s", "t", "u", "v", "w", "x", "y", "z",
     "A", "B", "C", "D", "E", "F", "G", "H", "I", "J", "K", "L", "M",
     "N", "O", "P", "Q", "R", "S", "T", "U", "V", "W", "X", "Y", "Z"}

\* \w of the re module (ASCII part)
WordChars == Letters \cup Digits \cup {"_"}

\* [fdbBsSiI] of BufferFormat.pattern
TypeChars == {"f", "d", "b", "B", "s", "S", "i", "I"}

\* what str.isspace() holds of, among the characters of the model
Whitespace == {" ", "\t", "\n"}

\* int() of a one-digit string
DigitValue(c) ==
    CASE c = "0" -> 0 [] c = "1" -> 1 [] c = "2" -> 2 [] c = "3" -> 3
      [] c = "4" -> 4 [] c = "5" -> 5 [] c = "6" -> 6 [] c = "7" -> 7
      [] c = "8" -> 8 [] c = "9" -> 9

\* s[i:j] of Python with 1-based inclusive bounds
Slice(s, i, j) == [k \in 1..(j - i + 1) |-> s[i + k - 1]]

RECURSIVE Without(_, _)
\* s with every character of set cs removed
Without(s, cs) ==
    IF s = <<>> THEN <<>>
    ELSE IF Head(s) \in cs THEN Without(Tail(s), cs)
         ELSE <<Head(s)>> \o Without(Tail(s), cs)

\* format_str.replace(' ', '')
ReplaceSpaces(s) == Without(s, {" "})

-----------------------------------------------------------------------------
(* The element types *)

\* GLfloat, GL_FLOAT, ... : the values of BUFFER_FORMAT_TYPES_MAP are pairs
\* (ctypes type, GL enum); a Python object is a record [py, a, b] here, so
\* that a pair and a type can be compared ("is") and differ.
PyPair(ctype, glenum) == [py |-> "tuple", a |-> ctype, b |-> glenum]
PyType(ctype) == [py |-> "type", a |-> ctype, b |-> ""]

BUFFER_FORMAT_TYPES_MAP ==
    [c \in TypeChars |->
        CASE c = "f" -> PyPair("GLfloat", "GL_FLOAT")
          [] c = "d" -> PyPair("GLdouble", "GL_DOUBLE")
          [] c = "b" -> PyPair("GLbyte", "GL_BYTE")
          [] c = "B" -> PyPair("GLubyte", "GL_UNSIGNED_BYTE")
          [] c = "i" -> PyPair("GLint", "GL_INT")
          [] c = "I" -> PyPair("GLuint", "GL_UNSIGNED_INT")
          [] c = "s" -> PyPair("GLshort", "GL_SHORT")
          [] c = "S" -> PyPair("GLushort", "GL_UNSIGNED_SHORT")]

\* ctypes.sizeof of an element type
SizeOfCType(ctype) ==
    CASE ctype = "GLfloat" -> 4 [] ctype = "GLdouble" -> 8
      [] ctype = "GLbyte" -> 1 [] ctype = "GLubyte" -> 1
      [] ctype = "GLint" -> 4 [] ctype = "GLuint" -> 4
      [] ctype = "GLshort" -> 2 [] ctype = "GLushort" -> 2

\* ctypes.alignment of an element type (the natural alignment of the C type)
AlignOfCType(ctype) == SizeOfCType(ctype)

\* _type * size : a ctypes array type
ArrayType(ctype, n) == [ctype |-> ctype, length |-> n]

\* sizeof(token.type)
SizeOfArray(t) == t.length * SizeOfCType(t.ctype)

-----------------------------------------------------------------------------
(* BufferFormat.pattern = \((\d)+([fdbBsSiI])\)\[(\w+)\] and pyvars *)

RECURSIVE RunEnd(_, _, _)
\* index of the last character of the longest run of characters of cs that
\* starts at s[i]; i - 1 when s[i] is not in cs
RunEnd(s, i, cs) ==
    IF i <= Len(s) /\ s[i] \in cs THEN RunEnd(s, i + 1, cs) ELSE i - 1

\* pattern.match at position pos: the match (its span and groups), or
\* [end |-> 0].  Group 1 is (\d)+ : a repeated group keeps its last
\* repetition only, one digit.
PatternMatchAt(s, pos) ==
    LET dEnd == RunEnd(s, pos + 1, Digits)
        t    == dEnd + 1
        wEnd == RunEnd(s, t + 3, WordChars)
        none == [start |-> pos, end |-> 0, groups |-> <<"", "", <<>>>>]
    IN  IF /\ pos <= Len(s) /\ s[pos] = "("
           /\ dEnd >= pos + 1
           /\ t + 2 <= Len(s)
           /\ s[t] \in TypeChars
           /\ s[t + 1] = ")"
           /\ s[t + 2] = "["
           /\ wEnd >= t + 3
           /\ wEnd + 1 <= Len(s)
           /\ s[wEnd + 1] = "]"
        THEN [start |-> pos, end |-> wEnd + 1,
              groups |-> <<s[dEnd], s[t], Slice(s, t + 3, wEnd)>>]
        ELSE none

RECURSIVE finditer(_, _)
\* pattern.finditer(s): the non-overlapping matches, scanning from pos
finditer(s, pos) ==
    IF pos > Len(s) THEN <<>>
    ELSE LET m == PatternMatchAt(s, pos)
         IN  IF m.end = 0 THEN finditer(s, pos + 1)
             ELSE <<m>> \o finditer(s, m.end + 1)

\* pyvars = [_a-zA-Z][_\w]+ ; True when pyvars.match(name) spans the name
pyvars(name) ==
    /\ Len(name) >= 2
    /\ name[1] \in Letters \cup {"_"}
    /\ \A k \in 2..Len(name) : name[k] \in WordChars

-----------------------------------------------------------------------------
(* BufferFormat.from_string *)

\* BufferFormat.token(offset, gl_type, size, type, name)
FormatToken(offset, gl_type, size, type, name) ==
    [offset |-> offset, gl_type |-> gl_type, size |-> size, type |-> type,
     name |-> name]

\* the outcome of a from_string call: a BufferFormat, or the exception raised
Raised(exc) == [status |-> exc, tokens |-> <<>>,
                struct |-> [fields |-> <<>>, size |-> 0]]

RECURSIVE BuildTokens(_, _, _, _)
\* the loop over the matches: one token per match, offset the running sum of
\* sizeof(token.type); stops with ValueError at the first name pyvars does
\* not span
BuildTokens(matches, k, offset, acc) ==
    IF k > Len(matches) THEN [exc |-> "", tokens |-> acc]
    ELSE LET groups == matches[k].groups
             pair   == BUFFER_FORMAT_TYPES_MAP[groups[2]]
             size   == DigitValue(groups[1])
             name   == groups[3]
             token  == FormatToken(offset, pair.b, size,
                                   ArrayType(pair.a, size), name)
         IN  IF ~pyvars(name) THEN [exc |-> "ValueError", tokens |-> acc]
             ELSE BuildTokens(matches, k + 1, offset + SizeOfArray(token.type),
                              Append(acc, token))

RECURSIVE JoinMatches(_, _, _)
\* format_str_2: the matched substrings, concatenated
JoinMatches(s, matches, k) ==
    IF k > Len(matches) THEN <<>>
    ELSE Slice(s, matches[k].start, matches[k].end) \o JoinMatches(s, matches, k + 1)

\* Python keywords of at most three letters (the names of the model are short)
Keywords ==
    {<<"a", "s">>, <<"i", "f">>, <<"i", "n">>, <<"i", "s">>, <<"o", "r">>,
     <<"a", "n", "d">>, <<"d", "e", "f">>, <<"d", "e", "l">>, <<"f", "o", "r">>,
     <<"n", "o", "t">>, <<"t", "r", "y">>}

\* namedtuple('V', names) accepts the names: none starts with an underscore,
\* none is a keyword, none occurs twice
namedtuple(names) ==
    /\ \A k \in 1..Len(names) : names[k][1] # "_" /\ names[k] \notin Keywords
    /\ \A j, k \in 1..Len(names) : j # k => names[j] # names[k]

\* n rounded up to a multiple of a
AlignUp(n, a) == ((n + a - 1) \div a) * a

RECURSIVE StructFields(_, _, _, _)
\* the fields of a ctypes.Structure with these _fields_ and no _pack_: each
\* field is placed at the next offset that is a multiple of its alignment
StructFields(tokens, k, offset, acc) ==
    IF k > Len(tokens) THEN acc
    ELSE LET at == AlignUp(offset, AlignOfCType(tokens[k].type.ctype))
         IN  StructFields(tokens, k + 1, at + SizeOfArray(tokens[k].type),
                 Append(acc, [name |-> tokens[k].name, type |-> tokens[k].type,
                              offset |-> at]))

RECURSIVE MaxAlign(_, _)
MaxAlign(tokens, k) ==
    IF k > Len(tokens) THEN 1
    ELSE LET a == AlignOfCType(tokens[k].type.ctype)
             r == MaxAlign(tokens, k + 1)
         IN  IF a > r THEN a ELSE r

\* type('BufferStruct', (Structure,), {'_fields_': struct_fields}): the
\* layout ctypes gives the structure; its size is rounded up to its alignment
BufferStruct(tokens) ==
    LET fields == StructFields(tokens, 1, 0, <<>>)
        last   == IF fields = <<>> THEN 0
                  ELSE fields[Len(fields)].offset
                       + SizeOfArray(fields[Len(fields)].type)
    IN  [fields |-> fields, size |-> AlignUp(last, MaxAlign(tokens, 1))]

\* FullyMatched with a slip: any token that matched is enough
FullyMatched_AnyMatch(format_str, matches) ==
    Len(matches) > 0

\* the check of the parsed text against the input: format_str_2 != format_str
FullyMatched(format_str, matches) ==
    JoinMatches(format_str, matches, 1) = format_str

\* the body of from_string (what a cache miss runs)
from_string_body(raw) ==
    LET format_str == ReplaceSpaces(raw)
        matches    == finditer(format_str, 1)
        built      == BuildTokens(matches, 1, 0, <<>>)
    IN  IF Len(format_str) = 0 THEN Raised("BufferFormatError")
        ELSE IF built.exc # "" THEN Raised(built.exc)
        ELSE IF ~FullyMatched(format_str, matches)
             THEN Raised("BufferFormatError")
        ELSE IF ~namedtuple([k \in 1..Len(built.tokens) |-> built.tokens[k].name])
             THEN Raised("ValueError")
        ELSE [status |-> "ok", tokens |-> built.tokens,
              struct |-> BufferStruct(built.tokens)]

-----------------------------------------------------------------------------
(* @lru_cache(maxsize=16) around from_string *)

maxsize == 16

\* CacheIndex with a slip: keys are compared by their length only
CacheIndex_ByLength(c, key) ==
    IF \E k \in 1..Len(c) : Len(c[k].key) = Len(key)
    THEN CHOOSE k \in 1..Len(c) : Len(c[k].key) = Len(key)
    ELSE 0

\* position of key in the cache, 0 when it is not cached
CacheIndex(c, key) ==
    IF \E k \in 1..Len(c) : c[k].key = key
    THEN CHOOSE k \in 1..Len(c) : c[k].key = key
    ELSE 0

\* c without its k-th entry
CacheDrop(c, k) == [j \in 1..(Len(c) - 1) |-> IF j < k THEN c[j] ELSE c[j + 1]]

\* one call through the cache: a hit returns the cached object and makes it the
\* most recent entry; a miss runs the body, stores what it returns (an
\* exception is not stored) and evicts the least recent entry of a full cache
lru_cache(c, key) ==
    LET k == CacheIndex(c, key)
        v == from_string_body(key)
    IN  IF k # 0
        THEN [cache |-> Append(CacheDrop(c, k), c[k]), val |-> c[k].val, hit |-> 1]
        ELSE IF v.status # "ok" THEN [cache |-> c, val |-> v, hit |-> 0]
        ELSE [cache |-> Append(IF Len(c) >= maxsize THEN Tail(c) ELSE c,
                               [key |-> key, val |-> v]),
              val |-> v, hit |-> 0]

-----------------------------------------------------------------------------
(* Python values handed to the packers *)

NoValue == [k |-> "none", n |-> 0, items |-> <<>>]

Num(n) == [k |-> "num", n |-> n, items |-> <<>>]
\* a one-character str, the non-numeric scalar of the model
Str == [k |-> "str", n |-> 0, items |-> <<>>]
SeqV(items) == [k |-> "seq", n |-> 0, items |-> items]

\* isinstance(v, Sequence): tuples and lists, and str
IsSequence(v) == v.k \in {"seq", "str"}

\* iter(v) succeeds (otherwise it raises TypeError)
Iterable(v) == v.k \in {"seq", "str"}

\* what iter(v) yields: the items; a one-character str yields itself
Iter(v) == IF v.k = "seq" THEN v.items ELSE <<v>>

\* v[0]: [exc, val]; a number is not subscriptable, an empty sequence has no
\* item 0
Item0(v) ==
    IF ~Iterable(v) THEN [exc |-> "TypeError", val |-> v]
    ELSE IF Iter(v) = <<>> THEN [exc |-> "IndexError", val |-> v]
    ELSE [exc |-> "", val |-> Iter(v)[1]]

-----------------------------------------------------------------------------
(* ctypes: arrays and structures as bytes (little-endian, IEEE-754) *)

Zeros(n) == [j \in 1..n |-> 0]

\* the bytes of number n (0, 1 or 2) stored as an element of type ctype
Encode(ctype, n) ==
    CASE ctype = "GLfloat" ->
           IF n = 0 THEN Zeros(4)
           ELSE IF n = 1 THEN <<0, 0, 128, 63>> ELSE <<0, 0, 0, 64>>
      [] ctype = "GLdouble" ->
           IF n = 0 THEN Zeros(8)
           ELSE IF n = 1 THEN <<0, 0, 0, 0, 0, 0, 240, 63>>
           ELSE <<0, 0, 0, 0, 0, 0, 0, 64>>
      [] OTHER -> <<n>> \o Zeros(SizeOfCType(ctype) - 1)

RECURSIVE ArrayInit(_, _, _, _)
\* token.type(*args): the arguments are stored one by one; an argument past
\* the array's length raises IndexError, one that is not a number TypeError;
\* elements that get no argument stay zero.  [exc, bytes]
ArrayInit(type, args, i, acc) ==
    IF i > Len(args)
    THEN [exc |-> "",
          bytes |-> acc \o Zeros(SizeOfArray(type) - Len(acc))]
    ELSE IF i > type.length THEN [exc |-> "IndexError", bytes |-> <<>>]
    ELSE IF args[i].k # "num" THEN [exc |-> "TypeError", bytes |-> <<>>]
    ELSE ArrayInit(type, args, i + 1, acc \o Encode(type.ctype, args[i].n))

\* setattr(buffer, name, array): the array's bytes written at the field's
\* offset in the structure
SetField(bytes, offset, fb) ==
    [j \in 1..Len(bytes) |->
        IF j > offset /\ j <= offset + Len(fb) THEN fb[j - offset] ELSE bytes[j]]

-----------------------------------------------------------------------------
(* BufferFormat.pack and BufferFormat.pack_single *)

NoShape == [size |-> 0 - 1, char |-> ""]

\* the characters k of BUFFER_FORMAT_TYPES_MAP whose value v satisfies
\* "v is token.type._type_": v is the pair (type, enum), the other the type
FormatStrKeys(token) ==
    {k \in TypeChars : BUFFER_FORMAT_TYPES_MAP[k] = PyType(token.type.ctype)}

\* the "if error:" block: format_str is assigned only for a character found
\* by FormatStrKeys, and token only once the inner loop has run; reading an
\* unassigned local raises UnboundLocalError.  tk = 0: token not assigned.
ErrorBlock(f, tk, subdata) ==
    IF tk = 0 \/ FormatStrKeys(f.tokens[tk]) = {}
    THEN [status |-> "UnboundLocalError", bytes |-> <<>>,
          shape |-> NoShape, found |-> subdata]
    ELSE [status |-> "ValueError", bytes |-> <<>>,
          shape |-> [size |-> f.tokens[tk].size,
                     char |-> CHOOSE k \in FormatStrKeys(f.tokens[tk]) : TRUE],
          found |-> subdata]

RECURSIVE PackFields(_, _, _, _, _)
\* for subdata, token in zip(iter(data), iter(self.tokens)):
\*     setattr(buffer, token.name, token.type(*subdata))
\* over one record's sub-values subs, from the k-th on.  [exc, bytes, tk, sub]
PackFields(f, subs, k, bytes, last) ==
    IF k > Len(subs) \/ k > Len(f.tokens)
    THEN [exc |-> "", bytes |-> bytes, tk |-> last.tk, sub |-> last.sub]
    ELSE IF ~Iterable(subs[k])
    THEN [exc |-> "TypeError", bytes |-> bytes, tk |-> k, sub |-> subs[k]]
    ELSE LET a == ArrayInit(f.tokens[k].type, Iter(subs[k]), 1, <<>>)
         IN  IF a.exc # ""
             THEN [exc |-> a.exc, bytes |-> bytes, tk |-> k, sub |-> subs[k]]
             ELSE PackFields(f, subs, k + 1,
                      SetField(bytes, f.struct.fields[k].offset, a.bytes),
                      [tk |-> k, sub |-> subs[k]])

RECURSIVE PackRecords(_, _, _, _, _)
\* for data, buffer in zip(iter_data, iter(buffers)): ... over the records
\* from the r-th on; acc holds the structures filled so far
PackRecords(f, records, r, acc, last) ==
    IF r > Len(records)
    THEN [exc |-> "", bytes |-> acc, tk |-> last.tk, sub |-> last.sub]
    ELSE IF ~Iterable(records[r])
    THEN [exc |-> "TypeError", bytes |-> acc, tk |-> last.tk, sub |-> last.sub]
    ELSE LET p == PackFields(f, Iter(records[r]), 1, Zeros(f.struct.size), last)
         IN  IF p.exc # "" THEN p
             ELSE PackRecords(f, records, r + 1, acc \o p.bytes,
                              [tk |-> p.tk, sub |-> p.sub])

\* len(self.tokens) > 1 or isinstance(data[0][0], Sequence): the records are
\* taken as they are; otherwise each is wrapped in a one-tuple.  [exc, asis]
AlreadyWrapped(f, data) ==
    LET first == Item0(data)
        inner == Item0(first.val)
    IN  IF Len(f.tokens) > 1 THEN [exc |-> "", asis |-> TRUE]
        ELSE IF first.exc # "" THEN [exc |-> first.exc, asis |-> FALSE]
        ELSE IF inner.exc # "" THEN [exc |-> inner.exc, asis |-> FALSE]
        ELSE [exc |-> "", asis |-> IsSequence(inner.val)]

Escaped(exc) == [status |-> exc, bytes |-> <<>>, shape |-> NoShape, found |-> NoValue]

\* BufferFormat.pack(self, data), data a sequence
pack(f, data) ==
    LET w       == AlreadyWrapped(f, data)
        records == IF w.asis THEN data.items
                   ELSE [r \in 1..Len(data.items) |-> SeqV(<<data.items[r]>>)]
        p       == PackRecords(f, records, 1, <<>>, [tk |-> 0, sub |-> NoValue])
    IN  IF Len(data.items) = 0 THEN Escaped("ValueError: No data to pack")
        ELSE IF w.exc # "" THEN Escaped(w.exc)
        ELSE IF p.exc = "TypeError" THEN ErrorBlock(f, p.tk, p.sub)
        ELSE IF p.exc # "" THEN Escaped(p.exc)
        ELSE [status |-> "ok", bytes |-> p.bytes, shape |-> NoShape,
              found |-> NoValue]

\* BufferFormat.pack_single(self, data)
pack_single(f, data) ==
    LET first   == Item0(data)
        wrap    == Len(f.tokens) = 1 /\ first.exc = "" /\ ~IsSequence(first.val)
        record  == IF wrap THEN SeqV(<<data>>) ELSE data
        p       == PackFields(f, Iter(record), 1, Zeros(f.struct.size),
                              [tk |-> 0, sub |-> NoValue])
    IN  IF Len(f.tokens) = 1 /\ first.exc = "TypeError"
        THEN ErrorBlock(f, 0, NoValue)
        ELSE IF Len(f.tokens) = 1 /\ first.exc # "" THEN Escaped(first.exc)
        ELSE IF ~Iterable(record) THEN ErrorBlock(f, 0, NoValue)
        ELSE IF p.exc = "TypeError" THEN ErrorBlock(f, p.tk, p.sub)
        ELSE IF p.exc # "" THEN Escaped(p.exc)
        ELSE [status |-> "ok", bytes |-> p.bytes, shape |-> NoShape,
              found |-> NoValue]

-----------------------------------------------------------------------------
(* eval_index and eval_slice *)

\* None, and an int, as a slice's start, stop or step
None == [none |-> TRUE, v |-> 0]
Int_(v) == [none |-> FALSE, v |-> v]

\* eval_index(index, length): [exc, val]
eval_index(index, length) ==
    IF index < 0 /\ index >= (0 - length)
    THEN [exc |-> "", val |-> length + index]
    ELSE IF index >= length THEN [exc |-> "IndexError", val |-> 0]
    ELSE IF index < (0 - length) THEN [exc |-> "IndexError", val |-> 0]
    ELSE [exc |-> "", val |-> index]

\* eval_slice(slice, length): [exc, start, stop, step].  Comparing None with
\* an int raises TypeError.
eval_slice(slice, length) ==
    LET step   == IF slice.step.none THEN 1 ELSE slice.step.v
        start0 == IF step < 1
                  THEN (IF slice.start.none THEN Int_(length - 1) ELSE slice.stop)
                  ELSE (IF slice.start.none THEN Int_(0) ELSE slice.start)
        stop0  == IF step < 1
                  THEN (IF slice.stop.none THEN Int_(0) ELSE slice.start)
                  ELSE (IF slice.stop.none THEN Int_(length) ELSE slice.stop)
        start  == IF start0.v < 0 THEN length + start0.v ELSE start0.v
        stop   == IF stop0.v < 0 THEN length + stop0.v ELSE stop0.v
        fail(e) == [exc |-> e, start |-> 0, stop |-> 0, step |-> 0]
    IN  IF ~slice.step.none /\ step = 0 THEN fail("IndexError")
        ELSE IF start0.none \/ stop0.none THEN fail("TypeError")
        ELSE IF start >= length \/ stop > length THEN fail("IndexError")
        ELSE IF start < 0 \/ stop < 0 THEN fail("IndexError")
        ELSE [exc |-> "", start |-> start, stop |-> stop, step |-> step]

-----------------------------------------------------------------------------
(* OpenGL: the buffer bound to each target, the storage of each buffer, and  *)
(* the calls made.  gl = [bound, store, log, exc]; a call made with no       *)
(* buffer bound to its target, or writing outside the storage, is a GL error *)
(* (PyOpenGL raises GLError) and changes nothing.                            *)

Targets == {"GL_ARRAY_BUFFER", "GL_ELEMENT_ARRAY_BUFFER"}
NoTarget == "None"

GlCall(fn, target, bound) == [fn |-> fn, target |-> target, bound |-> bound]

glBindBuffer(gl, target, bid) ==
    [gl EXCEPT !.bound = [@ EXCEPT ![target] = bid],
               !.log = Append(@, GlCall("glBindBuffer", target, bid))]

glBufferData(gl, target, size) ==
    LET b == gl.bound[target]
    IN  [gl EXCEPT !.store = IF b = 0 THEN @ ELSE [@ EXCEPT ![b] = size],
                   !.exc = IF b = 0 THEN "GLError" ELSE @,
                   !.log = Append(@, GlCall("glBufferData", target, b))]

glBufferSubData(gl, target, offset, size) ==
    LET b == gl.bound[target]
    IN  [gl EXCEPT !.exc = IF b = 0 \/ offset + size > gl.store[b]
                           THEN "GLError" ELSE @,
                   !.log = Append(@, GlCall("glBufferSubData", target, b))]

\* glGetBufferParameteriv(target, GL_BUFFER_SIZE): [gl, val]
glGetBufferSize(gl, target) ==
    LET b == gl.bound[target]
    IN  [gl |-> [gl EXCEPT !.log = Append(@, GlCall("glGetBufferParameteriv", target, b))],
         val |-> IF b = 0 \/ gl.store[b] < 0 THEN 0 ELSE gl.store[b]]

Raise(gl, exc) == [gl EXCEPT !.exc = exc]

-----------------------------------------------------------------------------
(* Buffer.bind, Buffer.init, Buffer.reserve, Buffer.__setitem__ as functions *)
(* of the GL state; self = [bid, target, format]                            *)

\* Buffer.bind(self, target=None)
bind(gl, self, target) ==
    IF self.target = NoTarget THEN Raise(gl, "ValueError")
    ELSE glBindBuffer(gl, IF target # NoTarget THEN target ELSE self.target,
                      self.bid)

\* Buffer.init(self, data, target=None)
init(gl, self, data, target) ==
    LET t     == IF target = NoTarget THEN self.target ELSE target
        g1    == bind(gl, self, t)
        cdata == pack(self.format, data)
    IN  IF g1.exc # "" THEN g1
        ELSE IF cdata.status # "ok" THEN Raise(g1, cdata.status)
        ELSE glBufferData(g1, t, Len(cdata.bytes))

\* Buffer.reserve(self, length, target=None); it calls self.bind() without
\* its target argument
reserve(gl, self, length, target) ==
    LET t  == IF target = NoTarget THEN self.target ELSE target
        g1 == bind(gl, self, NoTarget)
    IN  IF g1.exc # "" THEN g1
        ELSE glBufferData(g1, t, self.format.struct.size * length)

\* len(self): self.size // sizeof(self.format.struct); the size descriptor
\* binds the buffer and asks GL.  [gl, val]
BufferLen(gl, self) ==
    LET g1 == bind(gl, self, NoTarget)
        q  == glGetBufferSize(g1, self.target)
    IN  IF g1.exc # "" THEN [gl |-> g1, val |-> 0]
        ELSE [gl |-> q.gl, val |-> q.val \div self.format.struct.size]

\* Buffer.__setitem__(self, key, value); key = [kind, i, slice]
setitem(gl, self, key, value) ==
    LET g1    == bind(gl, self, NoTarget)
        bl    == BufferLen(g1, self)
        g2    == bl.gl
        blen  == bl.val
        ssize == self.format.struct.size
        \* the int branch
        idx   == eval_index(key.i, blen)
        one   == pack(self.format, SeqV(<<value>>))
        \* the slice branch
        val2  == IF ~key.slice.step.none /\ key.slice.step.v = 0 - 1
                 THEN SeqV([j \in 1..Len(value.items) |->
                              value.items[Len(value.items) + 1 - j]])
                 ELSE value
        sl    == eval_slice(key.slice, blen)
        many  == pack(self.format, val2)
    IN  IF key.kind \notin {"int", "slice"} THEN Raise(gl, "KeyError")
        ELSE IF g1.exc # "" THEN g1
        ELSE IF g2.exc # "" THEN g2
        ELSE IF key.kind = "int"
        THEN IF idx.exc # "" THEN Raise(g2, idx.exc)
             ELSE IF one.status # "ok" THEN Raise(g2, one.status)
             ELSE glBufferSubData(g2, self.target, idx.val * Len(one.bytes),
                                  Len(one.bytes))
        ELSE IF ~key.slice.step.none /\ key.slice.step.v \notin {1, 0 - 1}
        THEN Raise(g2, "NotImplementedError")
        ELSE IF sl.exc # "" THEN Raise(g2, sl.exc)
        ELSE IF sl.stop - sl.start # Len(val2.items) THEN Raise(g2, "ValueError")
        ELSE IF many.status # "ok" THEN Raise(g2, many.status)
        ELSE glBufferSubData(g2, self.target, sl.start * ssize,
                             ssize * (sl.stop - sl.start))

-----------------------------------------------------------------------------
(* Bounds and the inputs drawn within them *)

MaxPieces == 3      \* pieces a format string is put together from
MaxRepeats == 1     \* from_string calls that repeat an earlier argument
MaxElems == 2       \* elements of a scalar-group handed to the packers
MaxSubs == 2        \* sub-values of a record
MaxRecords == 2     \* records of a pack call
MaxReserve == 2     \* length of a Buffer.reserve call
NumBuffers == 2     \* Buffer objects

\* the sequences over S of length at most n
SeqsUpTo(S, n) == UNION {[1..m -> S] : m \in 0..n}

RECURSIVE Concat(_)
\* the concatenation of a sequence of strings
Concat(ss) == IF ss = <<>> THEN <<>> ELSE Head(ss) \o Concat(Tail(ss))

\* the text of a token: (<digits><type-char>)[<name>]
Tok(digits, t, name) == <<"(">> \o digits \o <<t, ")", "[">> \o name \o <<"]">>

\* pieces of format strings: token halves, whole tokens of every kind (several
\* digits, a zero count, a leading zero, a one-character name, a name with a
\* leading underscore, an unknown type character), white space, a stray
\* character
Pieces ==
    {<<"(", "3", "f", ")">>, <<"[", "a", "b", "]">>,
     Tok(<<"1", "2">>, "b", <<"c", "d">>),
     Tok(<<"0">>, "i", <<"e", "f">>),
     Tok(<<"0", "3">>, "d", <<"g", "h">>),
     Tok(<<"2">>, "S", <<"a">>),
     Tok(<<"1">>, "s", <<"_", "a">>),
     Tok(<<"2">>, "x", <<"a", "b">>),
     <<" ">>, <<"\t">>, <<"\n">>, <<"x">>}

\* the format strings from_string is called with
Inputs == {Concat(ps) : ps \in SeqsUpTo(Pieces, MaxPieces)}

\* the format strings of the cache runs, in the order of their first use:
\* more distinct valid strings than the cache holds, two of them equal up to
\* spaces, and invalid ones in between
CachePool ==
    <<Tok(<<"1">>, "f", <<"a", "b">>),
      Tok(<<"2">>, "f", <<"a", "b">>),
      Tok(<<"3">>, "f", <<"a", "b">>) \o <<"x">>,
      Tok(<<"3">>, "f", <<"a", "b">>),
      Tok(<<"4">>, "d", <<"a", "b">>),
      Tok(<<"1">>, "b", <<"a", "b">>) \o Tok(<<"1">>, "f", <<"c", "d">>),
      Tok(<<"1">>, "b", <<"a", "b">>) \o <<" ">> \o Tok(<<"1">>, "f", <<"c", "d">>),
      Tok(<<"2">>, "B", <<"a", "b">>),
      Tok(<<"1">>, "i", <<"a", "b">>),
      Tok(<<"2">>, "i", <<"a", "b">>),
      <<>>,
      Tok(<<"1">>, "I", <<"a", "b">>),
      Tok(<<"1">>, "s", <<"a", "b">>),
      Tok(<<"2">>, "s", <<"a", "b">>),
      Tok(<<"1">>, "S", <<"a", "b">>),
      Tok(<<"1">>, "f", <<"c", "d">>),
      Tok(<<"1", "2">>, "f", <<"c", "d">>),
      Tok(<<"2">>, "f", <<"c">>),
      Tok(<<"3">>, "f", <<"c", "d">>),
      Tok(<<"1">>, "d", <<"c", "d">>),
      Tok(<<"2">>, "d", <<"c", "d">>),
      Tok(<<"3">>, "d", <<"c", "d">>)>>

\* the format strings of the BufferFormats the packers are called on
PackFormats ==
    {Tok(<<"2">>, "f", <<"a", "b">>),
     Tok(<<"1">>, "s", <<"a", "b">>),
     Tok(<<"0">>, "f", <<"a", "b">>),
     Tok(<<"1">>, "b", <<"a", "b">>) \o Tok(<<"1">>, "f", <<"c", "d">>),
     Tok(<<"2">>, "i", <<"a", "b">>) \o Tok(<<"1">>, "i", <<"c", "d">>)}

Scalars == {Num(1), Num(2), Str}
\* scalar-groups: sequences of scalars
Groups == {SeqV(x) : x \in SeqsUpTo(Scalars, MaxElems)}
\* sub-values: scalar-groups, bare scalars, and a wrongly nested group
SubValues == Groups \cup Scalars \cup {SeqV(<<SeqV(<<Num(1)>>), Num(2)>>)}
\* records: sequences of sub-values, and bare scalars
Records == {SeqV(x) : x \in SeqsUpTo(SubValues, MaxSubs)} \cup Scalars
\* the arguments of pack
PackData == {SeqV(x) : x \in SeqsUpTo(Records, MaxRecords)}

\* the format of the Buffer objects
BufFormat == from_string_body(Tok(<<"2">>, "f", <<"a", "b">>))

Bids == 1..NumBuffers

\* the arguments of Buffer.init
InitData ==
    {SeqV(<<>>),
     SeqV(<<SeqV(<<Num(1), Num(2)>>)>>),
     SeqV(<<SeqV(<<Num(1), Num(2)>>), SeqV(<<Num(2), Num(1)>>)>>),
     SeqV(<<SeqV(<<Str, Num(2)>>)>>)}

\* the keys of Buffer.__setitem__
IntKey(i) == [kind |-> "int", i |-> i, slice |-> [start |-> None, stop |-> None, step |-> None]]
SliceKey(a, b, c) == [kind |-> "slice", i |-> 0, slice |-> [start |-> a, stop |-> b, step |-> c]]
Keys ==
    {IntKey(0 - 1), IntKey(0), IntKey(1),
     SliceKey(None, None, None), SliceKey(Int_(0), Int_(1), None),
     SliceKey(None, None, Int_(0 - 1)), SliceKey(Int_(1), None, Int_(0 - 1)),
     SliceKey(Int_(0), Int_(2), Int_(2)),
     [kind |-> "str", i |-> 0, slice |-> [start |-> None, stop |-> None, step |-> None]]}

\* the values of Buffer.__setitem__
SetValues ==
    {SeqV(<<Num(1), Num(2)>>),
     SeqV(<<SeqV(<<Num(1), Num(2)>>)>>),
     SeqV(<<SeqV(<<Num(1), Num(2)>>), SeqV(<<Num(2), Num(1)>>)>>)}

-----------------------------------------------------------------------------
(* Initial values *)

NoResult == Raised("not called")
NoPack == Escaped("not called")
NoOp == [op |-> "none", buf |-> 0, target |-> NoTarget, exc |-> "", gl |-> <<>>]

ParserInit ==
    /\ cache = <<>>
    /\ input = <<>>
    /\ result = NoResult
    /\ prevInput = <<>>
    /\ prevResult = NoResult
    /\ calls = 0
    /\ hits = 0
    /\ repeats = 0

PackInit ==
    /\ fmt = NoResult
    /\ pdata = [op |-> "none", data |-> NoValue]
    /\ pres = NoPack

BufferInit ==
    /\ bufs = [b \in Bids |-> [made |-> FALSE, target |-> NoTarget]]
    /\ glBound = [t \in Targets |-> 0]
    /\ glStore = [b \in Bids |-> 0 - 1]
    /\ lastOp = NoOp

Init == ParserInit /\ PackInit /\ BufferInit

-----------------------------------------------------------------------------
(* Calls of BufferFormat.from_string *)

\* BufferFormat.from_string(format_str)
from_string(format_str) ==
    LET r == lru_cache(cache, format_str)
    IN  /\ cache' = r.cache
        /\ result' = r.val
        /\ input' = format_str
        /\ calls' = calls + 1
        /\ hits' = hits + r.hit

\* a first call, with any format string
Parse ==
    /\ calls = 0
    /\ \E s \in Inputs : from_string(s)
    /\ UNCHANGED <<prevInput, prevResult, repeats, packVars, bufferVars>>

\* a second call, with the first call's string less its white space; the
\* first call's string and outcome are kept beside the second's
ParseStripped ==
    /\ calls = 1
    /\ from_string(Without(input, Whitespace))
    /\ prevInput' = input
    /\ prevResult' = result
    /\ UNCHANGED <<repeats, packVars, bufferVars>>

Next == Parse \/ ParseStripped

Spec == Init /\ [][Next]_vars

\* the number of strings of CachePool used so far
Used == calls - repeats

\* a call with the next string of CachePool
CallNew ==
    /\ Used < Len(CachePool)
    /\ from_string(CachePool[Used + 1])
    /\ UNCHANGED <<prevInput, prevResult, repeats, packVars, bufferVars>>

\* a call with a string used before
CallAgain ==
    /\ repeats < MaxRepeats
    /\ \E i \in 1..Used : from_string(CachePool[i])
    /\ repeats' = repeats + 1
    /\ UNCHANGED <<prevInput, prevResult, packVars, bufferVars>>

NextCache == CallNew \/ CallAgain

SpecCache == Init /\ [][NextCache]_vars

-----------------------------------------------------------------------------
(* Calls of the packers *)

InitPack ==
    /\ ParserInit
    /\ BufferInit
    /\ \E s \in PackFormats : fmt = from_string_body(s)
    /\ pdata = [op |-> "none", data |-> NoValue]
    /\ pres = NoPack

Pack ==
    /\ pdata.op = "none"
    /\ \E d \in PackData :
          /\ pdata' = [op |-> "pack", data |-> d]
          /\ pres' = pack(fmt, d)
    /\ UNCHANGED <<fmt, parserVars, bufferVars>>

PackSingle ==
    /\ pdata.op = "none"
    /\ \E d \in Records :
          /\ pdata' = [op |-> "pack_single", data |-> d]
          /\ pres' = pack_single(fmt, d)
    /\ UNCHANGED <<fmt, parserVars, bufferVars>>

NextPack == Pack \/ PackSingle

SpecPack == InitPack /\ [][NextPack]_vars

-----------------------------------------------------------------------------
(* Operations on Buffer objects *)

Self(b) == [bid |-> b, target |-> bufs[b].target, format |-> BufFormat]
Gl == [bound |-> glBound, store |-> glStore, log |-> <<>>, exc |-> ""]

\* the state after an operation on buffer b that left the GL state g
Done(op, b, target, g) ==
    /\ glBound' = g.bound
    /\ glStore' = g.store
    /\ lastOp' = [op |-> op, buf |-> b, target |-> target, exc |-> g.exc,
                  gl |-> g.log]

\* Buffer(buffer_id, format): wraps a buffer id; no target
New ==
    \E b \in Bids :
        /\ ~bufs[b].made
        /\ bufs' = [bufs EXCEPT ![b] = [made |-> TRUE, target |-> NoTarget]]
        /\ Done("Buffer", b, NoTarget, Gl)
        /\ UNCHANGED <<parserVars, packVars>>

\* Buffer.array(format) and Buffer.element(format): glGenBuffers, glBindBuffer
Alloc ==
    \E b \in Bids, t \in Targets :
        /\ ~bufs[b].made
        /\ bufs' = [bufs EXCEPT ![b] = [made |-> TRUE, target |-> t]]
        /\ Done("alloc", b, t, glBindBuffer(Gl, t, b))
        /\ UNCHANGED <<parserVars, packVars>>

Bind ==
    \E b \in Bids, t \in Targets \cup {NoTarget} :
        /\ bufs[b].made
        /\ Done("bind", b, t, bind(Gl, Self(b), t))
        /\ UNCHANGED <<bufs, parserVars, packVars>>

BufInit ==
    \E b \in Bids, t \in Targets \cup {NoTarget}, d \in InitData :
        /\ bufs[b].made
        /\ Done("init", b, t, init(Gl, Self(b), d, t))
        /\ UNCHANGED <<bufs, parserVars, packVars>>

Reserve ==
    \E b \in Bids, t \in Targets \cup {NoTarget}, n \in 0..MaxReserve :
        /\ bufs[b].made
        /\ Done("reserve", b, t, reserve(Gl, Self(b), n, t))
        /\ UNCHANGED <<bufs, parserVars, packVars>>

SetItem ==
    \E b \in Bids, k \in Keys, v \in SetValues :
        /\ bufs[b].made
        /\ Done(IF k.kind = "str" THEN "setitem_badkey" ELSE "setitem", b,
                NoTarget, setitem(Gl, Self(b), k, v))
        /\ UNCHANGED <<bufs, parserVars, packVars>>

NextBuffer == New \/ Alloc \/ Bind \/ BufInit \/ Reserve \/ SetItem

SpecBuffer == Init /\ [][NextBuffer]_vars

-----------------------------------------------------------------------------
(* The format grammar, as the claims state it *)

\* s[i..j] is (<digits><type-char>)[<name>]: one or more digits, one of the
\* eight type characters, a name of identifier syntax and two or more
\* characters
IsToken(s, i, j) ==
    \E t \in (i + 2)..(j - 5) :
        /\ s[i] = "("
        /\ \A k \in (i + 1)..(t - 1) : s[k] \in Digits
        /\ s[t] \in TypeChars
        /\ s[t + 1] = ")"
        /\ s[t + 2] = "["
        /\ s[t + 3] \in Letters \cup {"_"}
        /\ \A k \in (t + 4)..(j - 1) : s[k] \in WordChars
        /\ s[j] = "]"

RECURSIVE Tiles(_, _)
\* s from position i on is a concatenation of tokens
Tiles(s, i) ==
    \/ i > Len(s)
    \/ \E j \in i..Len(s) : IsToken(s, i, j) /\ Tiles(s, j + 1)

\* s is exactly a non-empty concatenation of well-formed tokens
IsTokenConcat(s) == s # <<>> /\ Tiles(s, 1)

RECURSIVE DigitRuns(_, _)
\* the runs of digits that follow each "(" of s, in order
DigitRuns(s, i) ==
    IF i > Len(s) THEN <<>>
    ELSE IF s[i] = "("
    THEN LET e == RunEnd(s, i + 1, Digits)
         IN  <<Slice(s, i + 1, e)>> \o DigitRuns(s, e + 1)
    ELSE DigitRuns(s, i + 1)

RECURSIVE DecimalValue(_)
\* the decimal value of a run of digits
DecimalValue(run) ==
    IF run = <<>> THEN 0
    ELSE 10 * DecimalValue(SubSeq(run, 1, Len(run) - 1)) + DigitValue(run[Len(run)])

\* a format string that is valid by the grammar: less its white space it is a
\* concatenation of tokens whose counts are at least 1 with no leading zero
ValidFormat(s) ==
    LET t == Without(s, Whitespace)
        runs == DigitRuns(t, 1)
    IN  /\ IsTokenConcat(t)
        /\ \A k \in 1..Len(runs) : runs[k][1] # "0"

\* names, element types, counts and offsets, in order
Layout(r) ==
    [k \in 1..Len(r.tokens) |->
        <<r.tokens[k].name, r.tokens[k].type, r.tokens[k].size, r.tokens[k].offset,
          r.struct.fields[k].offset>>]

RECURSIVE PackedSize(_)
\* the sum of count * sizeof(element_type) over the fields
PackedSize(tokens) ==
    IF tokens = <<>> THEN 0
    ELSE tokens[1].size * SizeOfCType(tokens[1].type.ctype) + PackedSize(Tail(tokens))

-----------------------------------------------------------------------------
(* The claims about from_string *)

\* C2: in every descriptor from_string returns, the count of the k-th field
\* (token.size, and the length of token.type) is the decimal value of the
\* whole run of digits of the k-th token.
C2_CountIsDecimalValue ==
    (calls >= 1 /\ result.status = "ok") =>
        LET runs == DigitRuns(Without(input, Whitespace), 1)
        IN  /\ Len(runs) = Len(result.tokens)
            /\ \A k \in 1..Len(runs) :
                  /\ result.tokens[k].size = DecimalValue(runs[k])
                  /\ result.tokens[k].type.length = DecimalValue(runs[k])

\* C4: from_string succeeds only if the input less its white space is exactly
\* a non-empty concatenation of well-formed tokens; an input with a character
\* before, between or after the tokens raises an error and yields no
\* descriptor, not even one of the tokens that did match.
C4_OnlyExactConcatenations ==
    calls >= 1 =>
        /\ result.status = "ok" => IsTokenConcat(Without(input, Whitespace))
        /\ ~IsTokenConcat(Without(input, Whitespace)) =>
              /\ result.status \in {"BufferFormatError", "ValueError"}
              /\ result.tokens = <<>>

\* a call whose input holds a token that matched and a stray character: it
\* raised and returned nothing
C4_Witness_StrayRejected ==
    /\ calls = 1
    /\ Len(finditer(ReplaceSpaces(input), 1)) >= 1
    /\ \E k \in 1..Len(input) : input[k] = "x"
    /\ result.status = "BufferFormatError"
    /\ result.tokens = <<>>

\* C5: for every valid format string s (valid by the grammar, and accepted
\* once its white space is removed) and s2, s less its white space (spaces,
\* tabs, newlines), from_string(s) and from_string(s2) both succeed and yield
\* the same field layout.
C5_WhitespaceInsensitive ==
    (calls = 2 /\ ValidFormat(prevInput) /\ result.status = "ok") =>
        /\ prevResult.status = "ok"
        /\ Layout(prevResult) = Layout(result)

\* C9: from_string rejects every format string with a token whose count is 0
\* or has a leading zero, and no descriptor has a field of count 0.
C9_ZeroCountRejected ==
    calls >= 1 =>
        /\ \A k \in 1..Len(result.tokens) : result.tokens[k].size >= 1
        /\ LET t == Without(input, Whitespace)
               runs == DigitRuns(t, 1)
           IN  (IsTokenConcat(t) /\ \E k \in 1..Len(runs) : runs[k][1] = "0")
                  => result.status # "ok"

-----------------------------------------------------------------------------
(* The claim about the cache *)

\* C8: every from_string call, whatever calls came before it (hits, misses,
\* evictions, failed parses), has the outcome of a fresh, uncached parse of its
\* string: the same descriptor, or the same error.
C8_CachedEqualsFresh ==
    calls >= 1 => result = from_string_body(input)

\* a hit on a full cache after an entry has been evicted
C8_Witness_HitAfterEviction ==
    /\ hits >= 1
    /\ Len(cache) = maxsize
    /\ result.status = "ok"
    /\ cache[Len(cache)].key = input
    /\ input # CachePool[Used]
    /\ \E i \in 1..Used :
          /\ from_string_body(CachePool[i]).status = "ok"
          /\ CacheIndex(cache, CachePool[i]) = 0

-----------------------------------------------------------------------------
(* The claims about the packers *)

\* a sequence of exactly n sub-values, each a sequence of numbers
WellNested(rec, n) ==
    /\ rec.k = "seq"
    /\ Len(rec.items) = n
    /\ \A k \in 1..n :
          /\ rec.items[k].k = "seq"
          /\ \A j \in 1..Len(rec.items[k].items) : rec.items[k].items[j].k = "num"

\* a group of exactly the field's count of numbers
ValidGroup(g, token) ==
    /\ g.k = "seq"
    /\ Len(g.items) = token.size
    /\ \A j \in 1..Len(g.items) : g.items[j].k = "num"

\* the records of the last call: the argument of pack, or the one record of
\* pack_single
CallRecords ==
    IF pdata.op = "pack" THEN pdata.data.items ELSE <<pdata.data>>

IsValueError(st) == st \in {"ValueError", "ValueError: No data to pack"}

\* C1: the packed layout has no padding: each field starts at its token
\* offset, one record is as long as the sum of the field sizes, and
\* pack(records) returns len(records) times that many bytes.
C1_PackedLayoutNoPadding ==
    (/\ pdata.op = "pack"
     /\ pres.status = "ok"
     /\ \A r \in 1..Len(pdata.data.items) :
           /\ WellNested(pdata.data.items[r], Len(fmt.tokens))
           /\ \A k \in 1..Len(fmt.tokens) :
                 ValidGroup(pdata.data.items[r].items[k], fmt.tokens[k])) =>
        /\ \A k \in 1..Len(fmt.tokens) :
              fmt.struct.fields[k].offset = fmt.tokens[k].offset
        /\ fmt.struct.size = PackedSize(fmt.tokens)
        /\ Len(pres.bytes) = Len(pdata.data.items) * PackedSize(fmt.tokens)

\* C3: in pack and pack_single, a sub-value whose number of elements differs
\* from its field's count makes the call fail with a ValueError: none is
\* accepted and zero-filled.
C3_ArityMismatchRaisesValueError ==
    (/\ pdata.op \in {"pack", "pack_single"}
     /\ pdata.data.k = "seq"
     /\ CallRecords # <<>>
     /\ \A r \in 1..Len(CallRecords) : WellNested(CallRecords[r], Len(fmt.tokens))
     /\ \E r \in 1..Len(CallRecords), k \in 1..Len(fmt.tokens) :
           Len(CallRecords[r].items[k].items) # fmt.tokens[k].size)
    => /\ IsValueError(pres.status)
       /\ pres.bytes = <<>>

\* the sub-value cannot be converted to a field: a scalar where a sequence is
\* expected, non-numeric or nested elements
Inconvertible(sub) ==
    \/ sub.k # "seq"
    \/ \E j \in 1..Len(sub.items) : sub.items[j].k # "num"

\* C6: when the first sub-value at fault of a pack or pack_single call cannot
\* be converted to its field, the call raises a ValueError that names the
\* field's shape <count><type_char> and that sub-value; no other exception
\* escapes.
C6_InconvertibleRaisesValueError ==
    \A r \in 1..Len(CallRecords), k \in 1..Len(fmt.tokens) :
        (/\ pdata.op \in {"pack", "pack_single"}
         /\ pdata.data.k = "seq"
         /\ \A q \in 1..Len(CallRecords) :
               /\ CallRecords[q].k = "seq"
               /\ Len(CallRecords[q].items) = Len(fmt.tokens)
         /\ \A q \in 1..Len(CallRecords), j \in 1..Len(fmt.tokens) :
               (q < r \/ (q = r /\ j < k))
                   => ValidGroup(CallRecords[q].items[j], fmt.tokens[j])
         /\ Inconvertible(CallRecords[r].items[k]))
        => /\ pres.status = "ValueError"
           /\ pres.shape.size = fmt.tokens[k].size
           /\ BUFFER_FORMAT_TYPES_MAP[pres.shape.char].a = fmt.tokens[k].type.ctype
           /\ pres.found = CallRecords[r].items[k]

\* each group in a one-tuple
Wrapped(groups) == [r \in 1..Len(groups) |-> SeqV(<<groups[r]>>)]

\* C7: on a descriptor with one field, pack of a non-empty sequence of valid
\* scalar-groups returns the bytes pack returns for the same groups each
\* wrapped in a one-tuple, and pack_single(g) those of pack_single((g,)); with
\* more than one field the input is taken as it is.
C7_SingleFieldShorthand ==
    /\ (/\ pdata.op = "pack"
        /\ Len(fmt.tokens) = 1
        /\ pdata.data.items # <<>>
        /\ \A r \in 1..Len(pdata.data.items) :
              ValidGroup(pdata.data.items[r], fmt.tokens[1]))
       => LET w == pack(fmt, SeqV(Wrapped(pdata.data.items)))
          IN  pres.status = "ok" /\ w.status = "ok" /\ pres.bytes = w.bytes
    /\ (/\ pdata.op = "pack_single"
        /\ Len(fmt.tokens) = 1
        /\ ValidGroup(pdata.data, fmt.tokens[1]))
       => LET w == pack_single(fmt, SeqV(<<pdata.data>>))
          IN  pres.status = "ok" /\ w.status = "ok" /\ pres.bytes = w.bytes
    /\ (pdata.op = "pack" /\ Len(fmt.tokens) > 1)
       => AlreadyWrapped(fmt, pdata.data).asis

-----------------------------------------------------------------------------
(* The claim about the Buffer operations *)

\* C10: every glBufferData / glBufferSubData call of an operation on buffer B
\* is made on a target B is bound to at that moment; and bind, init, reserve
\* and __setitem__ on a buffer whose target is None raise ValueError before
\* any GL call.
C10_UploadsOnOwnBinding ==
    /\ \A i \in 1..Len(lastOp.gl) :
          lastOp.gl[i].fn \in {"glBufferData", "glBufferSubData"}
              => lastOp.gl[i].bound = lastOp.buf
    /\ (/\ lastOp.op \in {"bind", "init", "reserve", "setitem"}
        /\ bufs[lastOp.buf].target = NoTarget)
       => (lastOp.exc = "ValueError" /\ lastOp.gl = <<>>)

=============================================================================
